---- MODULE Spec2Model ----
(***************************************************************************)
(* A model of the DAG-CBOR serializer of src/src/ser.rs: the Serializer,   *)
(* the three collectors (CollectSeq, BoundedCollect, CollectMap) and the   *)
(* bytes they write.  Bytes are numbers 0..255, a writer is the sequence   *)
(* of bytes pushed to it so far.                                           *)
(***************************************************************************)
EXTENDS Integers, Sequences, FiniteSets, TLC

VARIABLES sink, phase, kind, c, op, res, pre, hist, opened, hdr, hdrAt, emitted

vars == <<sink, phase, kind, c, op, res, pre, hist, opened, hdr, hdrAt, emitted>>

\* ------------------------------------------------------------- bounds
\* calls made on one open sequence, tuple or struct collector
MaxCalls == 3
\* calls made on one open map collector (a pair takes two)
MaxMapCalls == 4
\* the greatest length a caller declares
MaxLen == 2

\* ------------------------------------------------------------- results
\* Result<(), EncodeError>: Ok, or the message of EncodeError::Msg
Ok == "Ok"
NonFiniteMsg == "Float must be a finite number, not Infinity or NaN"
ListElementMsg == "List element cannot be serialized"
StructKeyMsg == "Struct key cannot be serialized."
StructValueMsg == "Struct value cannot be serialized."
MapKeyMsg == "Map key cannot be serialized."
MapValueMsg == "Map value cannot be serialized."
I128RangeMsg == "Integer must be within [-u64::MAX-1, u64::MAX] range"
U128RangeMsg == "Unsigned integer must be within [0, u64::MAX] range"

\* ------------------------------------------------------------- bytes
\* A 64-bit magnitude is four 16-bit limbs, least significant first.
Limbs64(n) == <<n % 65536, (n \div 65536) % 65536, 0, 0>>

HiByte(l) == l \div 256
LoByte(l) == l % 256

\* The head of a CBOR item: major type and argument in the shortest form.
TypeNum(major, L) ==
    IF L[2] = 0 /\ L[3] = 0 /\ L[4] = 0
    THEN IF L[1] <= 23 THEN <<major * 32 + L[1]>>
         ELSE IF L[1] <= 255 THEN <<major * 32 + 24, L[1]>>
         ELSE <<major * 32 + 25, HiByte(L[1]), LoByte(L[1])>>
    ELSE IF L[3] = 0 /\ L[4] = 0
    THEN <<major * 32 + 26, HiByte(L[2]), LoByte(L[2]), HiByte(L[1]), LoByte(L[1])>>
    ELSE <<major * 32 + 27, HiByte(L[4]), LoByte(L[4]), HiByte(L[3]), LoByte(L[3]),
           HiByte(L[2]), LoByte(L[2]), HiByte(L[1]), LoByte(L[1])>>

EncodeU64(L) == TypeNum(0, L)
EncodeStr(s) == TypeNum(3, Limbs64(Len(s))) \o s
ArrayStartBounded(len) == TypeNum(4, Limbs64(len))
MapStartBounded(len) == TypeNum(5, Limbs64(len))
EncodeNull == <<246>>
EncodeF64(bits) == <<251>> \o bits

\* ------------------------------------------------------------- values
\* What a Serialize implementation hands to the serializer, as a tree.
NoLen == [some |-> FALSE, n |-> 0]
SomeLen(n) == [some |-> TRUE, n |-> n]

Val(t, n, s, len, keys, kids) ==
    [t |-> t, n |-> n, s |-> s, len |-> len, keys |-> keys, kids |-> kids]

U(n) == Val("u64", n, <<>>, NoLen, <<>>, <<>>)
F64Finite == Val("f64", 1, <<63, 248, 0, 0, 0, 0, 0, 0>>, NoLen, <<>>, <<>>)
F64NaN == Val("f64", 0, <<127, 248, 0, 0, 0, 0, 0, 0>>, NoLen, <<>>, <<>>)
Str(s) == Val("str", 0, s, NoLen, <<>>, <<>>)
Unit == Val("unit", 0, <<>>, NoLen, <<>>, <<>>)
TupleV(kids) == Val("tuple", 0, <<>>, SomeLen(Len(kids)), <<>>, kids)
SeqV(len, kids) == Val("seq", 0, <<>>, len, <<>>, kids)
MapV(keys, kids) == Val("map", 0, <<>>, NoLen, keys, kids)
StructV(keys, kids) == Val("struct", 0, <<>>, SomeLen(Len(kids)), keys, kids)
NewtypeVariantV(variant, v) == Val("newtype_variant", 0, variant, NoLen, <<>>, <<v>>)
TupleVariantV(variant, kids) ==
    Val("tuple_variant", 0, variant, SomeLen(Len(kids)), <<>>, kids)
StructVariantV(variant, keys, kids) ==
    Val("struct_variant", 0, variant, SomeLen(Len(kids)), keys, kids)

\* ------------------------------------------------------------- helpers
RECURSIVE Concat(_)
\* the pairs pushed one after the other: key bytes, then value bytes
Concat(entries) ==
    IF entries = <<>> THEN <<>>
    ELSE Head(entries).k \o Head(entries).v \o Concat(Tail(entries))

\* a comparison that orders the other way round
cmp_Less_Reversed(a, b) ==
    \E i \in 1..(Len(b) + 1) :
        /\ i <= Len(a)
        /\ \A j \in 1..(i - 1) : a[j] = b[j]
        /\ (i = Len(b) + 1 \/ b[i] < a[i])

\* Vec<u8>::cmp: Less, by the first differing byte, a proper prefix first
cmp_Less(a, b) ==
    \E i \in 1..(Len(a) + 1) :
        /\ i <= Len(b)
        /\ \A j \in 1..(i - 1) : a[j] = b[j]
        /\ (i = Len(a) + 1 \/ a[i] < b[i])

\* the orders 1..n can be put in
Perms(n) == Permutations(1..n)

\* no sort: the entries as appended
sort_Skipped(entries) == {entries}

\* What sort_unstable_by(|a, b| a.0.cmp(&b.0)) may leave in the vector: a
\* permutation of the entries in which no entry is followed by one of a smaller
\* key.  The order of entries with equal keys is not specified by the sort.
sort_unstable_by(entries) ==
    {[i \in 1..Len(entries) |-> entries[f[i]]] : f \in
        {g \in Perms(Len(entries)) :
            \A i, j \in 1..Len(entries) :
                i < j => ~cmp_Less(entries[g[j]].k, entries[g[i]].k)}}

\* One outcome of the sort, for a collector nested inside a value: entries with
\* equal keys in the order appended (rev = FALSE) or in the opposite order.
SortOutcome(entries, rev) ==
    LET outcomes == sort_unstable_by(entries)
        InTieOrder(s) ==
            \E f \in Perms(Len(entries)) :
                /\ s = [i \in 1..Len(entries) |-> entries[f[i]]]
                /\ \A i, j \in 1..Len(entries) :
                    (i < j /\ entries[f[i]].k = entries[f[j]].k)
                        => (IF rev THEN f[i] > f[j] ELSE f[i] < f[j])
    IN IF \E s \in outcomes : InTieOrder(s)
       THEN CHOOSE s \in outcomes : InTieOrder(s)
       ELSE CHOOSE s \in outcomes : TRUE

\* ------------------------------------------------------------- collectors
\* a count that starts at one
CollectSeq_new_CountFromOne(w, len) ==
    IF len.some
    THEN [w |-> w \o ArrayStartBounded(len.n),
          c |-> [count |-> 1, hasMem |-> FALSE, mem |-> <<>>]]
    ELSE [w |-> w, c |-> [count |-> 1, hasMem |-> TRUE, mem |-> <<>>]]

\* CollectSeq::new: the header now if the length is given, else a buffer
CollectSeq_new(w, len) ==
    IF len.some
    THEN [w |-> w \o ArrayStartBounded(len.n),
          c |-> [count |-> 0, hasMem |-> FALSE, mem |-> <<>>]]
    ELSE [w |-> w, c |-> [count |-> 0, hasMem |-> TRUE, mem |-> <<>>]]

\* the buffered bytes before the header
CollectSeq_end_BufferFirst(cs, w) ==
    IF cs.hasMem THEN w \o cs.mem \o ArrayStartBounded(cs.count) ELSE w

\* CollectSeq::end: the counted header and the buffered bytes
CollectSeq_end(cs, w) ==
    IF cs.hasMem THEN w \o ArrayStartBounded(cs.count) \o cs.mem ELSE w

CollectMap_new ==
    [key_buffer |-> <<>>, value_buffer |-> <<>>, entries |-> <<>>]

\* CollectMap::end, given what the sort left in self.entries
CollectMap_end(sorted, w) == w \o Concat(sorted)

\* the header after the entries
SerializeMap_end_HeaderLast(cm, sorted, w) ==
    w \o Concat(sorted) \o MapStartBounded(Len(cm.entries))

\* SerializeMap::end: the header with the number of entries, then CollectMap::end
SerializeMap_end(cm, sorted, w) ==
    CollectMap_end(sorted, w \o MapStartBounded(Len(cm.entries)))

Result(w, err) == [w |-> w, err |-> err]
Step(cc, w, err) == [c |-> cc, w |-> w, err |-> err]

RECURSIVE Serialize(_, _, _)
RECURSIVE DriveBounded(_, _, _, _)
RECURSIVE DriveSeq(_, _, _, _, _)
RECURSIVE DriveMap(_, _, _, _, _)
RECURSIVE DriveStruct(_, _, _, _, _)

\* serialize_f64: only finite floats
serialize_f64(v, w) ==
    IF v.n = 0 THEN Result(w, NonFiniteMsg) ELSE Result(w \o EncodeF64(v.s), Ok)

\* every element straight to the real sink, buffer or not
CollectSeq_serialize_element_Unbuffered(cs, w, value, rev) ==
    LET c1 == [cs EXCEPT !.count = @ + 1]
        r == Serialize(value, w, rev)
    IN Step(c1, r.w, r.err)

\* CollectSeq::serialize_element
CollectSeq_serialize_element(cs, w, value, rev) ==
    LET c1 == [cs EXCEPT !.count = @ + 1] IN
    IF c1.hasMem
    THEN LET r == Serialize(value, c1.mem, rev) IN
         Step([c1 EXCEPT !.mem = r.w], w,
              IF r.err # Ok THEN ListElementMsg ELSE Ok)
    ELSE LET r == Serialize(value, w, rev) IN Step(c1, r.w, r.err)

\* BoundedCollect::serialize_element / serialize_field
BoundedCollect_serialize_element(w, value, rev) == Serialize(value, w, rev)

\* CollectMap::serialize(Some(key), value)
CollectMap_serialize(cm, key, value, rev) ==
    LET kr == Serialize(key, cm.key_buffer, rev) IN
    IF kr.err # Ok
    THEN [c |-> [cm EXCEPT !.key_buffer = kr.w], err |-> StructKeyMsg]
    ELSE LET key_bytes == kr.w
             c1 == [cm EXCEPT !.key_buffer = <<>>]
             vr == Serialize(value, c1.value_buffer, rev)
         IN IF vr.err # Ok
            THEN [c |-> [c1 EXCEPT !.value_buffer = vr.w], err |-> StructValueMsg]
            ELSE [c |-> [c1 EXCEPT !.value_buffer = <<>>,
                                   !.entries = Append(@, [k |-> key_bytes, v |-> vr.w])],
                  err |-> Ok]

\* SerializeMap::serialize_key
serialize_key(cm, key, rev) ==
    LET kr == Serialize(key, cm.key_buffer, rev) IN
    [c |-> [cm EXCEPT !.key_buffer = kr.w],
     err |-> IF kr.err # Ok THEN MapKeyMsg ELSE Ok]

\* an error of the value is dropped: the pair is stored and the call succeeds
serialize_value_Swallows(cm, value, rev) ==
    LET vr == Serialize(value, cm.value_buffer, rev) IN
    [c |-> [cm EXCEPT !.key_buffer = <<>>, !.value_buffer = <<>>,
                      !.entries = Append(@, [k |-> cm.key_buffer, v |-> vr.w])],
     err |-> Ok]

\* SerializeMap::serialize_value
serialize_value(cm, value, rev) ==
    LET vr == Serialize(value, cm.value_buffer, rev) IN
    IF vr.err # Ok
    THEN [c |-> [cm EXCEPT !.value_buffer = vr.w], err |-> MapValueMsg]
    ELSE [c |-> [cm EXCEPT !.key_buffer = <<>>, !.value_buffer = <<>>,
                           !.entries = Append(@, [k |-> cm.key_buffer, v |-> vr.w])],
          err |-> Ok]

\* a tuple's Serialize: every element with `?`
DriveBounded(w, kids, i, rev) ==
    IF i > Len(kids) THEN Result(w, Ok)
    ELSE LET r == BoundedCollect_serialize_element(w, kids[i], rev) IN
         IF r.err # Ok THEN r ELSE DriveBounded(r.w, kids, i + 1, rev)

\* a sequence's Serialize (collect_seq): every element with `?`
DriveSeq(cs, w, kids, i, rev) ==
    IF i > Len(kids) THEN Step(cs, w, Ok)
    ELSE LET r == CollectSeq_serialize_element(cs, w, kids[i], rev) IN
         IF r.err # Ok THEN r ELSE DriveSeq(r.c, r.w, kids, i + 1, rev)

\* a map's Serialize (collect_map): serialize_key?, serialize_value? per entry
DriveMap(cm, keys, kids, i, rev) ==
    IF i > Len(kids) THEN [c |-> cm, err |-> Ok]
    ELSE LET k == serialize_key(cm, keys[i], rev) IN
         IF k.err # Ok THEN k
         ELSE LET v == serialize_value(k.c, kids[i], rev) IN
              IF v.err # Ok THEN v ELSE DriveMap(v.c, keys, kids, i + 1, rev)

\* a struct's Serialize (derived): serialize_field? per field
DriveStruct(cm, keys, kids, i, rev) ==
    IF i > Len(kids) THEN [c |-> cm, err |-> Ok]
    ELSE LET f == CollectMap_serialize(cm, keys[i], kids[i], rev) IN
         IF f.err # Ok THEN f ELSE DriveStruct(f.c, keys, kids, i + 1, rev)

\* the bytes before the fields of a variant: a map of one entry, its key
VariantHeader(w, variant) == w \o MapStartBounded(1) \o EncodeStr(variant)

\* value.serialize(&mut Serializer { writer: w })
Serialize(v, w, rev) ==
    CASE v.t = "u64" -> Result(w \o EncodeU64(Limbs64(v.n)), Ok)
      [] v.t = "f64" -> serialize_f64(v, w)
      [] v.t = "str" -> Result(w \o EncodeStr(v.s), Ok)
      [] v.t = "unit" -> Result(w \o EncodeNull, Ok)
      [] v.t = "newtype_variant" ->
            Serialize(v.kids[1], VariantHeader(w, v.s), rev)
      [] v.t = "tuple" ->
            DriveBounded(w \o ArrayStartBounded(v.len.n), v.kids, 1, rev)
      [] v.t = "tuple_variant" ->
            DriveBounded(VariantHeader(w, v.s) \o ArrayStartBounded(v.len.n),
                         v.kids, 1, rev)
      [] v.t = "seq" ->
            LET n == CollectSeq_new(w, v.len)
                d == DriveSeq(n.c, n.w, v.kids, 1, rev)
            IN IF d.err # Ok THEN Result(d.w, d.err)
               ELSE Result(CollectSeq_end(d.c, d.w), Ok)
      [] v.t = "map" ->
            LET d == DriveMap(CollectMap_new, v.keys, v.kids, 1, rev) IN
            IF d.err # Ok THEN Result(w, d.err)
            ELSE Result(SerializeMap_end(d.c, SortOutcome(d.c.entries, rev), w), Ok)
      [] v.t = "struct" ->
            LET w1 == w \o MapStartBounded(v.len.n)
                d == DriveStruct(CollectMap_new, v.keys, v.kids, 1, rev)
            IN IF d.err # Ok THEN Result(w1, d.err)
               ELSE Result(CollectMap_end(SortOutcome(d.c.entries, rev), w1), Ok)
      [] v.t = "struct_variant" ->
            LET w1 == VariantHeader(w, v.s) \o MapStartBounded(v.len.n)
                d == DriveStruct(CollectMap_new, v.keys, v.kids, 1, rev)
            IN IF d.err # Ok THEN Result(w1, d.err)
               ELSE Result(CollectMap_end(SortOutcome(d.c.entries, rev), w1), Ok)

\* ------------------------------------------------------------- inputs
KeyA == Str(<<97>>)
KeyB == Str(<<98>>)
KeyAB == Str(<<97, 98>>)
\* fails after it has written an array header and one element
PartialFail == TupleV(<<U(1), F64NaN>>)

Prefixes == {<<>>, <<246>>}
VariantName == <<86>>
SeqArgs == {U(1), F64NaN, PartialFail, SeqV(NoLen, <<U(1), U(2)>>),
            MapV(<<KeyB, KeyA>>, <<U(1), U(2)>>)}
KeyArgs == {KeyA, KeyB, F64NaN, PartialFail}
ValueArgs == {U(1), U(2), F64NaN, PartialFail}
FieldNames == {KeyA, KeyB}
FieldArgs == {U(1), U(2), F64NaN, PartialFail}

\* the values handed to to_writer: leaves, and collections of them three deep
Leaves == {U(1), U(2), F64NaN}
Kids(S) == {<<>>} \cup {<<x>> : x \in S} \cup {<<x, y>> : x, y \in S}
KeyNames == {KeyA, KeyB, KeyAB}
Entries(S) ==
    {[keys |-> <<>>, kids |-> <<>>]}
    \cup {[keys |-> <<k>>, kids |-> <<x>>] : k \in KeyNames, x \in S}
    \cup {[keys |-> <<k, l>>, kids |-> <<x, y>>] : k, l \in KeyNames, x, y \in S}
Entries3 ==
    {[keys |-> <<k[1], k[2], k[3]>>, kids |-> <<U(k[4]), U(k[5]), U(k[6])>>] :
        k \in {<<KeyA, KeyB, KeyAB, 1, 2, 3>>, <<KeyB, KeyAB, KeyA, 2, 3, 1>>,
                <<KeyAB, KeyB, KeyA, 3, 2, 1>>, <<KeyB, KeyA, KeyA, 1, 2, 3>>}}
Collections(S) ==
    {TupleV(k) : k \in Kids(S)}
    \cup {SeqV(NoLen, k) : k \in Kids(S)}
    \cup {SeqV(SomeLen(Len(k)), k) : k \in Kids(S)}
    \cup {TupleVariantV(VariantName, k) : k \in Kids(S)}
    \cup {NewtypeVariantV(VariantName, x) : x \in S}
    \cup {MapV(e.keys, e.kids) : e \in Entries(S) \cup Entries3}
    \cup {StructV(e.keys, e.kids) : e \in Entries(S) \cup Entries3}
    \cup {StructVariantV(VariantName, e.keys, e.kids) : e \in Entries(S)}
Depth1 == Collections(Leaves)
Depth2 ==
    Collections({U(1), PartialFail, SeqV(NoLen, <<U(1), F64NaN>>),
                 SeqV(NoLen, <<U(2), U(1)>>), MapV(<<KeyB, KeyA>>, <<U(1), U(2)>>),
                 StructV(<<KeyB, KeyA>>, <<F64NaN, U(2)>>)})
Depth3 ==
    {TupleV(<<SeqV(NoLen, <<x>>)>>) : x \in
        {MapV(<<KeyB, KeyA>>, <<U(1), F64NaN>>),
         StructV(<<KeyB, KeyA>>, <<U(1), SeqV(NoLen, <<F64NaN>>)>>),
         MapV(<<KeyB, KeyA>>, <<U(1), MapV(<<KeyAB, KeyA>>, <<U(1), U(2)>>)>>)}}
    \cup {MapV(<<F64NaN>>, <<U(1)>>), MapV(<<KeyA, PartialFail>>, <<U(1), U(2)>>),
          TupleV(<<MapV(<<KeyA, PartialFail>>, <<F64NaN, U(2)>>)>>)}
Values == {F64Finite, Unit, KeyA, U(24), U(500), U(70000)}
          \cup Leaves \cup Depth1 \cup Depth2 \cup Depth3

Lens == {NoLen} \cup {SomeLen(n) : n \in 0..MaxLen}

\* ------------------------------------------------------------- state
NoCollector == [count |-> 0]
Call(o, k, v, err) == [op |-> o, k |-> k, v |-> v, err |-> err]

Init ==
    /\ sink \in Prefixes
    /\ phase = "new"
    /\ kind = "none"
    /\ c = NoCollector
    /\ op = "new"
    /\ res = Ok
    /\ pre = [sink |-> sink, c |-> NoCollector]
    /\ hist = <<>>
    /\ opened = sink
    /\ hdr = NoLen
    /\ hdrAt = 0
    /\ emitted = <<>>

Record(o, k, v, err) ==
    /\ op' = o
    /\ res' = err
    /\ pre' = [sink |-> sink, c |-> c]
    /\ hist' = Append(hist, Call(o, k, v, err))

Open(o, knd, cc, w, at, len) ==
    /\ phase = "new"
    /\ phase' = "open"
    /\ kind' = knd
    /\ c' = cc
    /\ sink' = w
    /\ opened' = sink
    /\ hdr' = len
    /\ hdrAt' = at
    /\ op' = o
    /\ res' = Ok
    /\ pre' = [sink |-> sink, c |-> c]
    /\ hist' = <<>>
    /\ UNCHANGED emitted

Close(o, w, pushed) ==
    /\ phase = "open"
    /\ phase' = "done"
    /\ sink' = w
    /\ op' = o
    /\ res' = Ok
    /\ pre' = [sink |-> sink, c |-> c]
    /\ emitted' = pushed
    /\ UNCHANGED <<kind, c, hist, opened, hdr, hdrAt>>

\* to_writer: value.serialize(&mut serializer), the whole value in one call
ToWriter(value, rev) ==
    /\ phase = "new"
    /\ LET r == Serialize(value, sink, rev) IN
        /\ sink' = r.w
        /\ Record("to_writer", Unit, value, r.err)
    /\ phase' = "done"
    /\ kind' = "value"
    /\ UNCHANGED <<c, opened, hdr, hdrAt, emitted>>

\* Serializer::serialize_seq
SerializeSeq(len) ==
    LET n == CollectSeq_new(sink, len) IN
    Open("serialize_seq", "seq", n.c, n.w, Len(sink) + 1, len)

\* Serializer::serialize_tuple, serialize_tuple_struct
SerializeTuple(len) ==
    Open("serialize_tuple", "tuple", NoCollector, sink \o ArrayStartBounded(len.n),
         Len(sink) + 1, len)

\* Serializer::serialize_tuple_variant
SerializeTupleVariant(variant, len) ==
    Open("serialize_tuple_variant", "tuple", NoCollector,
         VariantHeader(sink, variant) \o ArrayStartBounded(len.n),
         Len(VariantHeader(sink, variant)) + 1, len)

\* Serializer::serialize_map
SerializeMap ==
    Open("serialize_map", "map", CollectMap_new, sink, Len(sink) + 1, NoLen)

\* Serializer::serialize_struct
SerializeStruct(len) ==
    Open("serialize_struct", "struct", CollectMap_new,
         sink \o MapStartBounded(len.n), Len(sink) + 1, len)

\* Serializer::serialize_struct_variant
SerializeStructVariant(variant, len) ==
    Open("serialize_struct_variant", "struct", CollectMap_new,
         VariantHeader(sink, variant) \o MapStartBounded(len.n),
         Len(VariantHeader(sink, variant)) + 1, len)

\* SerializeSeq::serialize_element on the CollectSeq
SeqElement(value, rev) ==
    /\ phase = "open" /\ kind = "seq"
    /\ Len(hist) < MaxCalls
    /\ LET r == CollectSeq_serialize_element(c, sink, value, rev) IN
        /\ c' = r.c
        /\ sink' = r.w
        /\ Record("serialize_element", Unit, value, r.err)
    /\ UNCHANGED <<phase, kind, opened, hdr, hdrAt, emitted>>

\* SerializeTuple::serialize_element, SerializeTupleStruct/Variant::serialize_field
TupleElement(value, rev) ==
    /\ phase = "open" /\ kind = "tuple"
    /\ Len(hist) < MaxCalls
    /\ LET r == BoundedCollect_serialize_element(sink, value, rev) IN
        /\ sink' = r.w
        /\ Record("serialize_element", Unit, value, r.err)
    /\ UNCHANGED <<phase, kind, c, opened, hdr, hdrAt, emitted>>

\* SerializeMap::serialize_key
MapKey(key, rev) ==
    /\ phase = "open" /\ kind = "map"
    /\ Len(hist) < MaxMapCalls
    /\ LET r == serialize_key(c, key, rev) IN
        /\ c' = r.c
        /\ Record("serialize_key", key, Unit, r.err)
    /\ UNCHANGED <<sink, phase, kind, opened, hdr, hdrAt, emitted>>

\* SerializeMap::serialize_value
MapValue(value, rev) ==
    /\ phase = "open" /\ kind = "map"
    /\ Len(hist) < MaxMapCalls
    /\ LET r == serialize_value(c, value, rev) IN
        /\ c' = r.c
        /\ Record("serialize_value", Unit, value, r.err)
    /\ UNCHANGED <<sink, phase, kind, opened, hdr, hdrAt, emitted>>

\* SerializeStruct::serialize_field, SerializeStructVariant::serialize_field
StructField(key, value, rev) ==
    /\ phase = "open" /\ kind = "struct"
    /\ Len(hist) < MaxCalls
    /\ LET r == CollectMap_serialize(c, key, value, rev) IN
        /\ c' = r.c
        /\ Record("serialize_field", key, value, r.err)
    /\ UNCHANGED <<sink, phase, kind, opened, hdr, hdrAt, emitted>>

\* SerializeSeq::end
SeqEnd == kind = "seq" /\ Close("seq_end", CollectSeq_end(c, sink), <<>>)

\* SerializeTuple::end, SerializeTupleStruct::end, SerializeTupleVariant::end
TupleEnd == kind = "tuple" /\ Close("tuple_end", sink, <<>>)

\* SerializeMap::end
MapEnd ==
    /\ kind = "map"
    /\ \E sorted \in sort_unstable_by(c.entries) :
        Close("map_end", SerializeMap_end(c, sorted, sink), sorted)

\* SerializeStruct::end, SerializeStructVariant::end
StructEnd ==
    /\ kind = "struct"
    /\ \E sorted \in sort_unstable_by(c.entries) :
        Close("struct_end", CollectMap_end(sorted, sink), sorted)

\* the caller returns the error of the last call with `?`: the collector is dropped
Drop ==
    /\ phase = "open"
    /\ res # Ok
    /\ phase' = "done"
    /\ op' = "drop"
    /\ pre' = [sink |-> sink, c |-> c]
    /\ UNCHANGED <<sink, kind, c, res, hist, opened, hdr, hdrAt, emitted>>

Next ==
    \/ phase = "new" /\ \E v \in Values, rev \in BOOLEAN : ToWriter(v, rev)
    \/ phase = "new" /\ \E len \in Lens : SerializeSeq(len)
    \/ phase = "new" /\ \E len \in Lens \ {NoLen} : SerializeTuple(len)
    \/ phase = "new" /\ \E len \in Lens \ {NoLen} : SerializeTupleVariant(VariantName, len)
    \/ SerializeMap
    \/ phase = "new" /\ \E len \in Lens \ {NoLen} : SerializeStruct(len)
    \/ phase = "new" /\ \E len \in Lens \ {NoLen} : SerializeStructVariant(VariantName, len)
    \/ phase = "open" /\ kind = "seq" /\ \E v \in SeqArgs, rev \in BOOLEAN : SeqElement(v, rev)
    \/ phase = "open" /\ kind = "tuple" /\ \E v \in SeqArgs, rev \in BOOLEAN : TupleElement(v, rev)
    \/ phase = "open" /\ kind = "map" /\ \E k \in KeyArgs, rev \in BOOLEAN : MapKey(k, rev)
    \/ phase = "open" /\ kind = "map" /\ \E v \in ValueArgs, rev \in BOOLEAN : MapValue(v, rev)
    \/ phase = "open" /\ kind = "struct" /\ \E k \in FieldNames, v \in FieldArgs, rev \in BOOLEAN :
            StructField(k, v, rev)
    \/ SeqEnd
    \/ TupleEnd
    \/ MapEnd
    \/ StructEnd
    \/ Drop

Spec == Init /\ [][Next]_vars

\* ------------------------------------------------------------- 128-bit integers
\* An i128 or u128 is a sign and a magnitude of eight 16-bit limbs, least
\* significant first; zero is never negative.
Limb == 256 * 256
Int128(neg, mag) == [neg |-> neg, mag |-> mag]
Low64(mag) == <<mag[1], mag[2], mag[3], mag[4]>>

\* a < b on magnitudes: the most significant differing limb decides
MagLess(a, b) ==
    \E i \in 1..8 : a[i] < b[i] /\ \A j \in (i + 1)..8 : a[j] = b[j]

\* a <= b on i128
I128_Le(a, b) ==
    IF a.neg /\ b.neg THEN ~MagLess(a.mag, b.mag)
    ELSE IF a.neg THEN TRUE
    ELSE IF b.neg THEN FALSE
    ELSE ~MagLess(b.mag, a.mag)

RECURSIVE AddOne(_, _)
\* mag + 1 from limb i on, with the carry
AddOne(mag, i) ==
    IF i > 8 THEN mag
    ELSE IF mag[i] = Limb - 1 THEN AddOne([mag EXCEPT ![i] = 0], i + 1)
    ELSE [mag EXCEPT ![i] = @ + 1]

RECURSIVE SubOne(_, _)
\* mag - 1 from limb i on, with the borrow (mag is not zero)
SubOne(mag, i) ==
    IF i > 8 THEN mag
    ELSE IF mag[i] = 0 THEN SubOne([mag EXCEPT ![i] = Limb - 1], i + 1)
    ELSE [mag EXCEPT ![i] = @ - 1]

\* u64::MAX as i128, u64::MAX as u128
U64_MAX == Int128(FALSE, <<Limb - 1, Limb - 1, Limb - 1, Limb - 1, 0, 0, 0, 0>>)
\* -(u64::MAX as i128 + 1)
NegU64MaxPlus1 == Int128(TRUE, AddOne(U64_MAX.mag, 1))

\* i128::encode of a value the range check let through: major type 0 with the
\* value, or major type 1 with -1 - value (the encoder is the cbor4ii crate's;
\* below -(2^63) its bytes are taken to follow the same rule)
EncodeI128(v) ==
    IF v.neg THEN TypeNum(1, Low64(SubOne(v.mag, 1))) ELSE EncodeU64(Low64(v.mag))

\* i64::encode
EncodeI64(v) ==
    IF v.neg THEN TypeNum(1, Low64(SubOne(v.mag, 1))) ELSE TypeNum(0, Low64(v.mag))

\* the lower bound without its + 1
serialize_i128_NoPlusOne(v, w) ==
    IF ~(I128_Le(v, U64_MAX) /\ I128_Le(Int128(TRUE, U64_MAX.mag), v))
    THEN Result(w, I128RangeMsg)
    ELSE Result(w \o EncodeI128(v), Ok)

\* Serializer::serialize_i128
serialize_i128(v, w) ==
    IF ~(I128_Le(v, U64_MAX) /\ I128_Le(NegU64MaxPlus1, v))
    THEN Result(w, I128RangeMsg)
    ELSE Result(w \o EncodeI128(v), Ok)

\* Serializer::serialize_u128
serialize_u128(v, w) ==
    IF MagLess(U64_MAX.mag, v.mag)
    THEN Result(w, U128RangeMsg)
    ELSE Result(w \o EncodeU64(Low64(v.mag)), Ok)

\* the magnitudes tried: around the widths of the head, around 2^63, 2^64, 2^127
Magnitudes ==
    {<<a, b, b2, d, e, 0, 0, f>> :
        a \in {0, 1, 23, 24, 255, 256, Limb - 1}, b \in {0, Limb - 1},
        b2 \in {0, Limb - 1}, d \in {0, 32767, 32768, Limb - 1},
        e \in {0, 1}, f \in {0, 32767, 32768, Limb - 1}}
    \cup {<<Limb - 1, Limb - 1, Limb - 1, Limb - 1, Limb - 1, Limb - 1, Limb - 1, x>> :
            x \in {32767, Limb - 1}}
Zero128 == <<0, 0, 0, 0, 0, 0, 0, 0>>
Pow127 == <<0, 0, 0, 0, 0, 0, 0, 32768>>
I128Values ==
    {Int128(FALSE, m) : m \in {x \in Magnitudes : x[8] <= 32767}}
    \cup {Int128(TRUE, m) : m \in {x \in Magnitudes :
                                    x # Zero128 /\ (x[8] <= 32767 \/ x = Pow127)}}
U128Values == {Int128(FALSE, m) : m \in Magnitudes}

SerializeI128(v) ==
    /\ phase = "new"
    /\ LET r == serialize_i128(v, sink) IN
        /\ sink' = r.w
        /\ Record("serialize_i128", Unit, v, r.err)
    /\ phase' = "done"
    /\ kind' = "value"
    /\ UNCHANGED <<c, opened, hdr, hdrAt, emitted>>

SerializeU128(v) ==
    /\ phase = "new"
    /\ LET r == serialize_u128(v, sink) IN
        /\ sink' = r.w
        /\ Record("serialize_u128", Unit, v, r.err)
    /\ phase' = "done"
    /\ kind' = "value"
    /\ UNCHANGED <<c, opened, hdr, hdrAt, emitted>>

NextInt ==
    \/ phase = "new" /\ \E v \in I128Values : SerializeI128(v)
    \/ phase = "new" /\ \E v \in U128Values : SerializeU128(v)

SpecInt == Init /\ [][NextInt]_vars

\* ------------------------------------------------------------- reading the output
RECURSIVE BytewiseLeq(_, _)
\* a <= b byte by byte from the left, unsigned; a proper prefix comes first
BytewiseLeq(a, b) ==
    IF a = <<>> THEN TRUE
    ELSE IF b = <<>> THEN FALSE
    ELSE IF Head(a) # Head(b) THEN Head(a) < Head(b)
    ELSE BytewiseLeq(Tail(a), Tail(b))

NonDecreasingKeys(s) == \A i \in 1..(Len(s) - 1) : BytewiseLeq(s[i].k, s[i + 1].k)

RECURSIVE FlattenPairs(_, _)
\* the bytes of pairs s[i..]: each key in full, then its value in full
FlattenPairs(s, i) ==
    IF i > Len(s) THEN <<>> ELSE s[i].k \o s[i].v \o FlattenPairs(s, i + 1)

IsPermutationOf(s, entries) ==
    /\ Len(s) = Len(entries)
    /\ \E f \in Perms(Len(entries)) : \A i \in 1..Len(entries) : s[i] = entries[f[i]]

\* the bytes after the head byte that hold its argument
ArgumentLen(info) ==
    IF info <= 23 THEN 0 ELSE IF info = 24 THEN 1 ELSE IF info = 25 THEN 2
    ELSE IF info = 26 THEN 4 ELSE 8

Undecodable == [ok |-> FALSE, next |-> 0, sorted |-> FALSE]
Decoded(next, sorted) == [ok |-> TRUE, next |-> next, sorted |-> sorted]

RECURSIVE DecodeItem(_, _)
RECURSIVE DecodeArray(_, _, _)
RECURSIVE DecodeMap(_, _, _, _)

\* A reference decoder: reads one item of b from position i. ok: the item is
\* whole and every header in it counts what follows; next: the position after
\* it; sorted: every map in it has its keys in non-decreasing bytewise order.
DecodeItem(b, i) ==
    IF i > Len(b) THEN Undecodable
    ELSE LET major == b[i] \div 32
             info == b[i] % 32
         IN CASE major \in {0, 1} /\ info <= 27 ->
                    IF i + ArgumentLen(info) <= Len(b)
                    THEN Decoded(i + 1 + ArgumentLen(info), TRUE) ELSE Undecodable
              [] major = 3 /\ info <= 23 ->
                    IF i + info <= Len(b) THEN Decoded(i + 1 + info, TRUE)
                    ELSE Undecodable
              [] major = 4 /\ info <= 23 -> DecodeArray(b, i + 1, info)
              [] major = 5 /\ info <= 23 -> DecodeMap(b, i + 1, info, <<>>)
              [] b[i] = 246 -> Decoded(i + 1, TRUE)
              [] b[i] = 251 ->
                    IF i + 8 <= Len(b) THEN Decoded(i + 9, TRUE) ELSE Undecodable
              [] OTHER -> Undecodable

DecodeArray(b, i, n) ==
    IF n = 0 THEN Decoded(i, TRUE)
    ELSE LET d == DecodeItem(b, i) IN
         IF ~d.ok THEN Undecodable
         ELSE LET r == DecodeArray(b, d.next, n - 1) IN
              IF ~r.ok THEN Undecodable ELSE Decoded(r.next, d.sorted /\ r.sorted)

\* prev: the key before this pair, if any, in a sequence of zero or one
DecodeMap(b, i, n, prev) ==
    IF n = 0 THEN Decoded(i, TRUE)
    ELSE LET k == DecodeItem(b, i) IN
         IF ~k.ok THEN Undecodable
         ELSE LET v == DecodeItem(b, k.next) IN
              IF ~v.ok THEN Undecodable
              ELSE LET key == SubSeq(b, i, k.next - 1)
                       r == DecodeMap(b, v.next, n - 1, <<key>>)
                   IN IF ~r.ok THEN Undecodable
                      ELSE Decoded(r.next,
                                   /\ k.sorted /\ v.sorted /\ r.sorted
                                   /\ (prev = <<>> \/ BytewiseLeq(prev[1], key)))

RECURSIVE ContainsNonFinite(_)
\* the value holds a float that is infinite or NaN, at any depth
ContainsNonFinite(v) ==
    \/ v.t = "f64" /\ v.n = 0
    \/ \E i \in 1..Len(v.kids) : ContainsNonFinite(v.kids[i])
    \/ \E i \in 1..Len(v.keys) : ContainsNonFinite(v.keys[i])

EndOps == {"seq_end", "tuple_end", "map_end", "struct_end"}
AllOk == \A i \in 1..Len(hist) : hist[i].err = Ok
\* the elements or pairs the calls handed over
NumCalls ==
    IF kind = "map" THEN Cardinality({i \in 1..Len(hist) : hist[i].op = "serialize_value"})
    ELSE Len(hist)
\* the item the last to_writer wrote, read back from the sink
WrittenItem == DecodeItem(sink, Len(pre.sink) + 1)

\* ------------------------------------------------------------- claims

\* C1: the keys a map, struct or struct variant writes at end are in
\* non-decreasing bytewise order, whatever the order of the calls, and so are
\* the keys of every map nested in a value that was written whole.
C1_KeysNonDecreasing ==
    /\ op \in {"map_end", "struct_end"} =>
        /\ IsPermutationOf(emitted, c.entries)
        /\ NonDecreasingKeys(emitted)
    /\ (op = "to_writer" /\ res = Ok) => WrittenItem.sorted

C1_Witness ==
    /\ op \in {"map_end", "struct_end"}
    /\ Len(c.entries) = 2
    /\ ~BytewiseLeq(c.entries[1].k, c.entries[2].k)
    /\ emitted = <<c.entries[2], c.entries[1]>>

\* the same entries handed over in the order f
Permuted(v, f) ==
    [v EXCEPT !.keys = [i \in 1..Len(v.keys) |-> v.keys[f[i]]],
              !.kids = [i \in 1..Len(v.kids) |-> v.kids[f[i]]]]
DistinctKeys(keys) == \A i, j \in 1..Len(keys) : keys[i] = keys[j] => i = j
\* the one sequence that holds the entries of S in increasing key order
InKeyOrder(S) ==
    CHOOSE s \in [1..Cardinality(S) -> S] :
        /\ \A e \in S : \E i \in 1..Cardinality(S) : s[i] = e
        /\ NonDecreasingKeys(s)
EntrySet(entries) == {entries[i] : i \in 1..Len(entries)}
StructBA == StructV(<<KeyB, KeyA>>, <<U(2), U(1)>>)
MapAB == MapV(<<KeyA, KeyB>>, <<U(1), U(2)>>)

\* C2: the bytes depend on the entries, not on the order they are handed over
\* in: a map or struct with distinct keys is written the same under every
\* permutation of its entries, a struct the same as the map with its entries,
\* and a collector closed over distinct keys writes its pairs in the one order
\* their keys fix.
C2_OrderIndependent ==
    /\ (op = "to_writer" /\ res = Ok /\ hist[1].v.t \in {"map", "struct"}
            /\ DistinctKeys(hist[1].v.keys)) =>
        LET v == hist[1].v IN
        /\ \A f \in Perms(Len(v.keys)), rev \in BOOLEAN :
                Serialize(Permuted(v, f), pre.sink, rev) = Result(sink, Ok)
        /\ \A rev \in BOOLEAN :
                /\ Serialize([v EXCEPT !.t = "map", !.len = NoLen], pre.sink, rev).w = sink
                /\ Serialize([v EXCEPT !.t = "struct", !.len = SomeLen(Len(v.kids))],
                             pre.sink, rev).w = sink
    /\ (op = "to_writer" /\ hist[1].v \in {StructBA, MapAB}) =>
        sink = pre.sink \o <<162, 97, 97, 1, 97, 98, 2>>
    /\ (op \in {"map_end", "struct_end"}
            /\ \A i, j \in 1..Len(c.entries) :
                    c.entries[i].k = c.entries[j].k => i = j) =>
        emitted = InKeyOrder(EntrySet(c.entries))

C2_Witness ==
    /\ op = "to_writer" /\ res = Ok
    /\ hist[1].v = StructBA

\* the count in the head byte of the collection the collector wrote
HeaderCount == sink[hdrAt] % 32

\* C3 as stated: whenever a collection is closed after calls that all
\* succeeded, its header counts the elements or pairs written after it.
C3_HeaderCountsWritten ==
    (op \in EndOps /\ AllOk) => HeaderCount = NumCalls

\* C3, amended: the header counts what was written where the code counts (a
\* sequence of unknown length, a generic map); where the caller declares the
\* length the header states the declared length, which is the number written
\* only if the caller makes that many calls. A value written whole decodes
\* with every header counting what follows it.
C3_HeaderCount ==
    /\ (op \in EndOps /\ AllOk) =>
        /\ hdrAt <= Len(sink)
        /\ sink[hdrAt] \div 32 = (IF kind \in {"seq", "tuple"} THEN 4 ELSE 5)
        /\ HeaderCount = (IF hdr.some THEN hdr.n ELSE NumCalls)
    /\ (op = "to_writer" /\ res = Ok) =>
        (WrittenItem.ok /\ WrittenItem.next = Len(sink) + 1)

C3_Witness ==
    /\ op = "seq_end" /\ AllOk
    /\ ~hdr.some
    /\ NumCalls = 2

RECURSIVE ElementBytes(_, _)
\* the bytes of the elements handed over from call i on, each encoded alone
ElementBytes(h, i) ==
    IF i > Len(h) THEN <<>>
    ELSE Serialize(h[i].v, <<>>, FALSE).w \o ElementBytes(h, i + 1)
Elements == [i \in 1..Len(hist) |-> hist[i].v]

\* C4: a sequence of unknown length whose elements all encode is written as
\* the header with the number of elements and then the elements' bytes in call
\* order: the bytes of the same elements as a tuple or as a sequence of
\* declared length.
C4_UnknownLengthAsBounded ==
    /\ (op = "seq_end" /\ ~hdr.some /\ AllOk) =>
        /\ sink = opened \o <<128 + Len(hist)>> \o ElementBytes(hist, 1)
        /\ Serialize(TupleV(Elements), opened, FALSE) = Result(sink, Ok)
        /\ Serialize(SeqV(SomeLen(Len(hist)), Elements), opened, FALSE) = Result(sink, Ok)
    /\ (op = "to_writer" /\ res = Ok /\ hist[1].v.t = "seq" /\ ~hist[1].v.len.some) =>
        \A rev \in BOOLEAN :
            /\ Serialize(TupleV(hist[1].v.kids), pre.sink, rev).w = sink
            /\ Serialize(SeqV(SomeLen(Len(hist[1].v.kids)), hist[1].v.kids),
                         pre.sink, rev).w = sink

C4_Witness ==
    /\ op = "seq_end" /\ ~hdr.some /\ AllOk
    /\ Len(hist) = 3
    /\ hist[2].v = SeqV(NoLen, <<U(1), U(2)>>)

C6_FailureClearsScratch ==
    (op \in {"serialize_key", "serialize_value", "serialize_field"} /\ res # Ok) =>
        /\ c.key_buffer = <<>>
        /\ c.value_buffer = <<>>
        /\ c.entries = pre.c.entries

\* C7 as stated: the error of a whole encode is the error of the child that
\* failed; the only child that fails here is a float that is not finite.
C7_ErrorUnchanged ==
    (op = "to_writer" /\ res # Ok) => res = NonFiniteMsg

\* the first of the values that holds a float that is not finite
FirstFailing(vs) ==
    CHOOSE i \in 1..Len(vs) :
        ContainsNonFinite(vs[i]) /\ \A j \in 1..(i - 1) : ~ContainsNonFinite(vs[j])

RECURSIVE ErrorOf(_)
\* the error the caller of a whole encode sees for a value that holds a float
\* that is not finite: the float's own error through the collections that
\* write straight through, the collector's message from a buffering collector
ErrorOf(v) ==
    CASE v.t = "f64" -> NonFiniteMsg
      [] v.t \in {"tuple", "tuple_variant", "newtype_variant"} ->
            ErrorOf(v.kids[FirstFailing(v.kids)])
      [] v.t = "seq" ->
            IF v.len.some THEN ErrorOf(v.kids[FirstFailing(v.kids)]) ELSE ListElementMsg
      [] v.t \in {"struct", "struct_variant"} -> StructValueMsg
      [] v.t = "map" ->
            LET i == CHOOSE i \in 1..Len(v.kids) :
                        /\ ContainsNonFinite(v.keys[i]) \/ ContainsNonFinite(v.kids[i])
                        /\ \A j \in 1..(i - 1) :
                            ~ContainsNonFinite(v.keys[j]) /\ ~ContainsNonFinite(v.kids[j])
            IN IF ContainsNonFinite(v.keys[i]) THEN MapKeyMsg ELSE MapValueMsg
Expected(failed, err) == IF failed THEN err ELSE Ok

\* C7, amended: a child that fails always fails the whole encode, and fails the
\* call on the collector it was handed to. The caller sees the child's own
\* error through tuples, sequences of declared length and tuple and newtype
\* variants; a sequence of unknown length, a map and a struct put their own
\* message in its place.
C7_ErrorReachesCaller ==
    /\ op = "to_writer" =>
        res = Expected(ContainsNonFinite(hist[1].v), ErrorOf(hist[1].v))
    /\ (op = "serialize_element" /\ (kind = "tuple" \/ hdr.some)) =>
        res = Expected(ContainsNonFinite(hist[Len(hist)].v), ErrorOf(hist[Len(hist)].v))
    /\ (op = "serialize_element" /\ kind = "seq" /\ ~hdr.some) =>
        res = Expected(ContainsNonFinite(hist[Len(hist)].v), ListElementMsg)
    /\ op = "serialize_key" =>
        res = Expected(ContainsNonFinite(hist[Len(hist)].k), MapKeyMsg)
    /\ op = "serialize_value" =>
        res = Expected(ContainsNonFinite(hist[Len(hist)].v), MapValueMsg)
    /\ op = "serialize_field" =>
        res = Expected(ContainsNonFinite(hist[Len(hist)].v), StructValueMsg)

C7_Witness ==
    /\ op = "to_writer"
    /\ hist[1].v = TupleV(<<MapV(<<KeyA, PartialFail>>, <<F64NaN, U(2)>>)>>)
    /\ res = MapValueMsg

RECURSIVE StableInsert(_, _)
\* s with e put after every entry whose key is not greater
StableInsert(s, e) ==
    IF s = <<>> THEN <<e>>
    ELSE IF BytewiseLeq(Head(s).k, e.k) THEN <<Head(s)>> \o StableInsert(Tail(s), e)
    ELSE <<e>> \o s
RECURSIVE StableSort(_, _)
\* the entries from i on inserted one by one into s
StableSort(entries, i) ==
    IF i = 0 THEN <<>> ELSE StableInsert(StableSort(entries, i - 1), entries[i])

\* every call succeeded, and on a map every value followed its own key
ProperCalls ==
    /\ AllOk
    /\ kind = "map" =>
        \A i \in 1..Len(hist) :
            hist[i].op = (IF i % 2 = 1 THEN "serialize_key" ELSE "serialize_value")

\* C9 as stated: pairs with equal keys are written in the order appended.
C9_SortStable ==
    (op \in {"map_end", "struct_end"} /\ ProperCalls) =>
        emitted = StableSort(c.entries, Len(c.entries))

\* C10: on the map path nothing reaches the real sink before end, and end
\* writes the header with the number of pairs and then the pairs in key order,
\* each key followed by its value.
C10_DeferredMapHeader ==
    kind = "map" =>
        /\ phase = "open" => sink = opened
        /\ op \in {"serialize_key", "serialize_value"} => sink = pre.sink
        /\ op = "map_end" =>
            \E f \in Perms(Len(c.entries)) :
                LET s == [i \in 1..Len(c.entries) |-> c.entries[f[i]]] IN
                /\ NonDecreasingKeys(s)
                /\ sink = opened \o <<160 + Len(c.entries)>> \o FlattenPairs(s, 1)

C10_Witness ==
    /\ kind = "map" /\ op = "map_end"
    /\ opened # <<>>
    /\ Len(c.entries) = 2
    /\ ~BytewiseLeq(c.entries[1].k, c.entries[2].k)

\* ------------------------------------------------------------- claims on 128-bit integers
HighLimbsZero(mag) == mag[5] = 0 /\ mag[6] = 0 /\ mag[7] = 0 /\ mag[8] = 0
\* -(2^64) <= v <= 2^64 - 1
InRangeI128(v) == HighLimbsZero(v.mag) \/ (v.neg /\ v.mag = <<0, 0, 0, 0, 1, 0, 0, 0>>)
\* v <= 2^64 - 1
InRangeU128(v) == HighLimbsZero(v.mag)
\* -(2^63) <= v <= 2^63 - 1
FitsI64(v) ==
    /\ HighLimbsZero(v.mag)
    /\ v.mag[4] <= 32767 \/ (v.neg /\ Low64(v.mag) = <<0, 0, 0, 32768>>)
Arg == hist[Len(hist)].v
MinusOne == Int128(TRUE, <<1, 0, 0, 0, 0, 0, 0, 0>>)

\* C8: serialize_i128 and serialize_u128 fail exactly on the values outside
\* [-(2^64), 2^64 - 1] and [0, 2^64 - 1], a failing call leaves the sink as it
\* was, and a value in range is written as the equal u64 or i64 is.
C8_Int128Range ==
    /\ op = "serialize_i128" =>
        /\ res # Ok <=> ~InRangeI128(Arg)
        /\ res # Ok => sink = pre.sink
        /\ (res = Ok /\ ~Arg.neg) => sink = pre.sink \o EncodeU64(Low64(Arg.mag))
        /\ (res = Ok /\ FitsI64(Arg)) => sink = pre.sink \o EncodeI64(Arg)
        /\ Arg = MinusOne => sink = pre.sink \o <<32>>
        /\ Arg = U64_MAX =>
                sink = pre.sink \o <<27, 255, 255, 255, 255, 255, 255, 255, 255>>
        /\ Arg = Int128(TRUE, Pow127) => res # Ok
    /\ op = "serialize_u128" =>
        /\ res # Ok <=> ~InRangeU128(Arg)
        /\ res # Ok => sink = pre.sink
        /\ res = Ok => sink = pre.sink \o EncodeU64(Low64(Arg.mag))
        /\ Arg = U64_MAX =>
                sink = pre.sink \o <<27, 255, 255, 255, 255, 255, 255, 255, 255>>
        /\ Arg.mag = [i \in 1..8 |-> Limb - 1] => res # Ok

C8_Witness ==
    /\ op = "serialize_i128"
    /\ Arg = NegU64MaxPlus1
    /\ res = Ok
    /\ sink # pre.sink

====
